---- MODULE Spec2Model ----
(***************************************************************************)
(* gomr (src/main.go): the four commands add / remove / up / down, the    *)
(* .gomr record file they share, the host go.mod's replace directives and  *)
(* the go.mod / go.sum files of the replaced directories.                  *)
(*                                                                         *)
(* Text is modelled as sequences of one-character strings, so that the     *)
(* formatting done by fmt.Fprintf / fmt.Fprintln and the parsing done by   *)
(* bufio.Scanner / strings.Fields are computed, not assumed.  The tokens   *)
(* "src", "-replace=" and "-dropreplace=" stand for those literal runs of  *)
(* characters (none of them contains white space, "!" or "=" before its    *)
(* end).                                                                   *)
(***************************************************************************)
EXTENDS Integers, Sequences, FiniteSets, TLC

\* ---------------------------------------------------------------- bounds
\* number of commands run in one behaviour
MaxOps == 3
\* number of lines of a record file that exists before the first command
MaxRecs == 2
\* depth of the working directory below the filesystem root
MaxDepth == 3

\* ------------------------------------------------------------ text helpers
\* unicode.IsSpace, as strings.Fields uses it
IsSpace(c) == c \in {" ", "\t", "\n", "\r"}

\* strings.ToLower on the letters of the alphabet
LowerChar(c) == IF c = "A" THEN "a" ELSE IF c = "B" THEN "b" ELSE c

ToLower(s) == [i \in 1..Len(s) |-> LowerChar(s[i])]

\* index of the first element of s satisfying c = ch, 0 when there is none
RECURSIVE IndexFrom(_, _, _)
IndexFrom(s, ch, i) ==
    IF i > Len(s) THEN 0
    ELSE IF s[i] = ch THEN i
    ELSE IndexFrom(s, ch, i + 1)

\* bufio.ScanLines: drops one trailing carriage return of a line
DropCR(s) == IF Len(s) > 0 /\ s[Len(s)] = "\r" THEN SubSeq(s, 1, Len(s) - 1) ELSE s

\* bufio.Scanner with the default split function: the lines of data, a final
\* unterminated non-empty line included
RECURSIVE ScanLines(_)
ScanLines(data) ==
    IF data = <<>> THEN <<>>
    ELSE LET i == IndexFrom(data, "\n", 1)
         IN IF i = 0 THEN <<DropCR(data)>>
            ELSE <<DropCR(SubSeq(data, 1, i - 1))>>
                     \o ScanLines(SubSeq(data, i + 1, Len(data)))

\* length of the leading run of non-space characters of s
RECURSIVE WordLen(_, _)
WordLen(s, i) ==
    IF i > Len(s) \/ IsSpace(s[i]) THEN i - 1 ELSE WordLen(s, i + 1)

\* strings.Fields
RECURSIVE Fields(_)
Fields(s) ==
    IF s = <<>> THEN <<>>
    ELSE IF IsSpace(s[1]) THEN Fields(Tail(s))
    ELSE LET n == WordLen(s, 1)
         IN <<SubSeq(s, 1, n)>> \o Fields(SubSeq(s, n + 1, Len(s)))

\* ------------------------------------------------------------- the world
gomrFilename == <<".gomr">>

ModuleNames == {<<"a">>, <<"A">>, <<"b">>}

\* $GOPATH
GoPath == <<"/", "w">>

\* filepath.Join(os.Getenv("GOPATH"), "src", moduleName)
DefaultPath(moduleName) == GoPath \o <<"/", "src", "/">> \o moduleName

DirX == <<"/", "x">>
DirZ == <<"/", "z">>
DirN == <<"/", "n">>
DirB == DefaultPath(<<"b">>)

\* the directories that exist on disk; DirN and the default paths of the
\* other names do not
ExistingDirs == {DirX, DirZ, DirB}

\* the optional second argument of add; <<>> is "not given"
ArgPaths == {<<>>, DirX, DirZ, DirN}

\* one step of the environment that may fail during a command
Faults ==
    {[at |-> "none", dir |-> <<>>], [at |-> "edit", dir |-> <<>>],
     [at |-> "store", dir |-> <<>>]}
    \cup {[at |-> k, dir |-> d] : k \in {"init", "rm"}, d \in ExistingDirs}

NoFault == [at |-> "none", dir |-> <<>>]

VARIABLES
    store,      \* the .gomr file of the host module: [exists, data]
    gomods,     \* the directories (other than the host) holding a go.mod
    gosums,     \* the directories holding a go.sum
    manifest,   \* the replace directives of the host go.mod: <<old, new>> pairs
    last,       \* the command run last, what it did and what it returned
    prev,       \* the command run before it
    hist,       \* what kind of run of commands this has been so far
    nops,       \* the number of commands run
    find        \* one run of findModuleRoot: its directories and where it is

vars == <<store, gomods, gosums, manifest, last, prev, hist, nops, find>>

\* ------------------------------------------------------------ record file
\* type replace struct
MkReplace(name, path, addGoMod) ==
    [ModuleName |-> name, AbsPath |-> path, AddGoMod |-> addGoMod]

\* the zero value of replace
ZeroReplace == MkReplace(<<>>, <<>>, FALSE)

\* the body of readGomrFile's loop on one line; ok = FALSE is the run-time
\* panic of splits[0] / splits[1] on a line of fewer than two fields
ParseLine(line) ==
    LET splits == Fields(line)
    IN IF Len(splits) < 2 THEN [ok |-> FALSE, r |-> ZeroReplace]
       ELSE IF splits[2][1] = "!"
            THEN [ok |-> TRUE, r |-> MkReplace(splits[1], Tail(splits[2]), TRUE)]
            ELSE [ok |-> TRUE, r |-> MkReplace(splits[1], splits[2], FALSE)]

RECURSIVE ParseLines(_)
ParseLines(lines) ==
    IF lines = <<>> THEN [status |-> "ok", replaces |-> <<>>]
    ELSE LET p == ParseLine(lines[1])
         IN IF ~p.ok THEN [status |-> "panic", replaces |-> <<>>]
            ELSE LET rest == ParseLines(Tail(lines))
                 IN IF rest.status # "ok" THEN rest
                    ELSE [status |-> "ok", replaces |-> <<p.r>> \o rest.replaces]

\* readGomrFile: "err" when the file cannot be opened
readGomrFile(st) ==
    IF ~st.exists THEN [status |-> "err", replaces |-> <<>>]
    ELSE ParseLines(ScanLines(st.data))

\* fmt.Fprintln(f, a, b, c): the operands separated by spaces, then a newline
Fprintln3(a, b, c) == a \o <<" ">> \o b \o <<" ">> \o c \o <<"\n">>

\* the loop of writeGomrFile: fmt.Fprintln(f, "%s %s", r.ModuleName, absPath)
RECURSIVE writeGomrFile(_)
writeGomrFile(replaces) ==
    IF replaces = <<>> THEN <<>>
    ELSE LET r == replaces[1]
             absPath == IF r.AddGoMod THEN <<"!">> \o r.AbsPath ELSE r.AbsPath
         IN Fprintln3(<<"%", "s", " ", "%", "s">>, r.ModuleName, absPath)
                \o writeGomrFile(Tail(replaces))

\* what addRun appends: fmt.Fprintf(file, "%s %s" or "%s !%s", moduleName, absPath)
AddLine(moduleName, absPath, addGoMod) ==
    moduleName \o <<" ">> \o (IF addGoMod THEN <<"!">> ELSE <<>>) \o absPath

\* os.OpenFile(..., O_CREATE|O_APPEND|O_WRONLY) followed by the write
AppendStore(st, text) ==
    [exists |-> TRUE, data |-> (IF st.exists THEN st.data ELSE <<>>) \o text]

\* -------------------------------------------------------- the go tool
\* fmt.Sprintf("-replace=%s=%s", name, path)
ReplaceArg(name, path) == <<"-replace=">> \o name \o <<"=">> \o path

\* fmt.Sprintf("-dropreplace=%s", name)
DropArg(name) == <<"-dropreplace=">> \o name

\* go mod edit accepts an old path made of import-path characters only
ValidModulePath(p) ==
    /\ p # <<>>
    /\ \A i \in 1..Len(p) : p[i] \notin {"%", "!", "=", " ", "\n", "\t", "\r"}

\* go mod edit accepts an unversioned new path only when it is a directory path
IsDirectoryPath(p) == p # <<>> /\ p[1] = "/"

\* one flag of go mod edit, decoded: the old path ends at the first "="
ParseEditArg(arg) ==
    LET rest == Tail(arg)
        i == IndexFrom(rest, "=", 1)
    IN IF arg[1] = "-dropreplace="
       THEN [kind |-> "drop", old |-> rest, new |-> <<>>, ok |-> ValidModulePath(rest)]
       ELSE IF i = 0
            THEN [kind |-> "replace", old |-> rest, new |-> <<>>, ok |-> FALSE]
            ELSE LET old == SubSeq(rest, 1, i - 1)
                     new == SubSeq(rest, i + 1, Len(rest))
                 IN [kind |-> "replace", old |-> old, new |-> new,
                     ok |-> ValidModulePath(old) /\ IsDirectoryPath(new)]

\* go mod edit applies its flags in order; -replace overrides a directive for
\* the same old path, -dropreplace of an absent directive changes nothing
RECURSIVE ApplyEdits(_, _)
ApplyEdits(man, args) ==
    IF args = <<>> THEN man
    ELSE LET e == ParseEditArg(args[1])
             dropped == {d \in man : d[1] # e.old}
         IN ApplyEdits(IF e.kind = "drop" THEN dropped
                       ELSE dropped \cup {<<e.old, e.new>>},
                       Tail(args))

\* gomod(dir, "edit", args...): fails, changing nothing, when the tool is given
\* no flag or a flag it rejects, or when the environment fails
gomodEdit(man, args, fault) ==
    IF \/ fault.at = "edit"
       \/ args = <<>>
       \/ \E i \in 1..Len(args) : ~ParseEditArg(args[i]).ok
    THEN [ok |-> FALSE, manifest |-> man]
    ELSE [ok |-> TRUE, manifest |-> ApplyEdits(man, args)]

\* gomod(dir, "init", name): go mod init needs the directory and refuses one
\* that already holds a go.mod
gomodInitOk(dir, mods, fault) ==
    /\ dir \in ExistingDirs
    /\ dir \notin mods
    /\ ~(fault.at = "init" /\ fault.dir = dir)

\* one call of gomod, as the commands make it, with what it returned
InitCall(dir, name, ok) == [cmd |-> "init", dir |-> dir, args |-> <<name>>, ok |-> ok]

EditCall(dir, args, ok) == [cmd |-> "edit", dir |-> dir, args |-> args, ok |-> ok]

\* the directory findModuleRoot returns: the working directory, which holds
\* the host go.mod (the "" that remove, up and down pass to gomod is the same
\* directory)
HostRoot == <<"/", "h">>

\* what a command did: its result, the files and the manifest it leaves, the
\* go tool calls it made and the files it deleted
Outcome(result, st, mods, sums, man, calls, removed, rec) ==
    [result |-> result, store |-> st, gomods |-> mods, gosums |-> sums,
     manifest |-> man, calls |-> calls, removed |-> removed, rec |-> rec,
     replaces |-> <<>>]

\* the same, for a command that holds the list replaces in memory when it ends
OutcomeWith(replaces, out) == [out EXCEPT !.replaces = replaces]

\* ------------------------------------------------------------------- add
\* the check of the path left out
PathExists_Always(absPath) == TRUE

\* os.Stat(absPath) finds the path
PathExists(absPath) == absPath \in ExistingDirs

\* the test of the go.mod turned round
AddNeedsGoMod_Inverted(absPath, mods) == absPath \in mods

\* addGoMod: os.Stat of the go.mod in absPath says it does not exist
AddNeedsGoMod(absPath, mods) == absPath \notin mods

\* absPath: the second argument, or the copy under GOPATH when it is not given
ResolvePath(moduleName, argPath) ==
    IF Len(argPath) = 0 THEN DefaultPath(moduleName) ELSE argPath

\* addRun; rec is the record it appends
addRun(moduleName, argPath, st, mods, sums, man, fault) ==
    LET absPath == ResolvePath(moduleName, argPath)
        addGoMod == AddNeedsGoMod(absPath, mods)
        rec == MkReplace(moduleName, absPath, addGoMod)
        initCalls == IF addGoMod
                     THEN <<InitCall(absPath, moduleName,
                                     gomodInitOk(absPath, mods, fault))>>
                     ELSE <<>>
        mods1 == IF addGoMod THEN mods \cup {absPath} ELSE mods
        args == <<ReplaceArg(moduleName, absPath)>>
        ed == gomodEdit(man, args, fault)
        calls == Append(initCalls, EditCall(HostRoot, args, ed.ok))
    IN IF ~PathExists(absPath)
       THEN Outcome("err", st, mods, sums, man, <<>>, {}, rec)
       ELSE IF addGoMod /\ ~gomodInitOk(absPath, mods, fault)
       THEN Outcome("err", st, mods, sums, man, initCalls, {}, rec)
       ELSE IF ~ed.ok
       THEN Outcome("err", st, mods1, sums, man, calls, {}, rec)
       ELSE IF fault.at = "store"
       THEN Outcome("err", st, mods1, sums, ed.manifest, calls, {}, rec)
       ELSE Outcome("ok", AppendStore(st, AddLine(moduleName, absPath, addGoMod)),
                    mods1, sums, ed.manifest, calls, {}, rec)

\* ---------------------------------------------------------------- remove
\* the loop of removeRun over replaces, from index i (1-based here)
RECURSIVE RemoveLoop(_, _, _, _, _)
RemoveLoop(replaces, moduleName, i, found, deleted) ==
    IF i > Len(replaces)
    THEN [replaces |-> replaces, found |-> found, deleted |-> deleted]
    ELSE IF ToLower(replaces[i].ModuleName) = ToLower(moduleName)
         THEN LET n == Len(replaces)
                  swapped == [replaces EXCEPT ![i] = replaces[n]]
              IN RemoveLoop(SubSeq(swapped, 1, n - 1), moduleName, i + 1,
                            TRUE, replaces[i])
         ELSE RemoveLoop(replaces, moduleName, i + 1, found, deleted)

\* the loop entered with found already set
RemoveScan_FoundSet(replaces, moduleName) ==
    RemoveLoop(replaces, moduleName, 1, TRUE, ZeroReplace)

\* found := false; var deleted replace; the loop
RemoveScan(replaces, moduleName) ==
    RemoveLoop(replaces, moduleName, 1, FALSE, ZeroReplace)

\* os.Remove with "does not exist" counted as a failure too
RemoveFails_AbsentIsError(dir, files, fault) ==
    dir \notin files \/ (fault.at = "rm" /\ fault.dir = dir)

\* os.Remove of a file of directory dir, files being the directories that hold
\* such a file, returns an error that is not "does not exist"
RemoveFails(dir, files, fault) == fault.at = "rm" /\ fault.dir = dir

\* the files os.Remove deletes for a dropped record: go.mod and go.sum of its
\* directory when the record says a go.mod was added
RemovedFiles(deleted, mods, sums) ==
    IF ~deleted.AddGoMod THEN {}
    ELSE {<<d, "go.mod">> : d \in {deleted.AbsPath} \cap mods}
             \cup {<<d, "go.sum">> : d \in {deleted.AbsPath} \cap sums}

\* removeRun; rec is the record it reports as deleted
removeRun(moduleName, st, mods, sums, man, fault) ==
    LET rd == readGomrFile(st)
        scan == RemoveScan(rd.replaces, moduleName)
        deleted == scan.deleted
        args == <<DropArg(moduleName)>>
        ed == gomodEdit(man, args, fault)
        calls == <<EditCall(<<>>, args, ed.ok)>>
        modFails == deleted.AddGoMod /\ RemoveFails(deleted.AbsPath, mods, fault)
        sumFails == deleted.AddGoMod /\ RemoveFails(deleted.AbsPath, sums, fault)
        mods1 == IF deleted.AddGoMod THEN mods \ {deleted.AbsPath} ELSE mods
        sums1 == IF deleted.AddGoMod THEN sums \ {deleted.AbsPath} ELSE sums
        removed == RemovedFiles(deleted, mods, sums)
    IN OutcomeWith(scan.replaces,
       IF rd.status # "ok"
       THEN Outcome(rd.status, st, mods, sums, man, <<>>, {}, ZeroReplace)
       ELSE IF ~scan.found
       THEN Outcome("ok", st, mods, sums, man, <<>>, {}, ZeroReplace)
       ELSE IF ~ed.ok
       THEN Outcome("err", st, mods, sums, man, calls, {}, deleted)
       ELSE IF modFails
       THEN Outcome("err", st, mods, sums, ed.manifest, calls, {}, deleted)
       ELSE IF sumFails
       THEN Outcome("err", st, mods1, sums, ed.manifest, calls,
                    RemovedFiles(deleted, mods, {}), deleted)
       ELSE IF fault.at = "store"
       THEN Outcome("err", st, mods1, sums1, ed.manifest, calls, removed, deleted)
       ELSE Outcome("ok", [exists |-> TRUE, data |-> writeGomrFile(scan.replaces)],
                    mods1, sums1, ed.manifest, calls, removed, deleted))

\* -------------------------------------------------------------------- up
\* go mod init run for every record
NeedsInit_Always(r) == TRUE

\* if r.AddGoMod
NeedsInit(r) == r.AddGoMod

\* the path derived from GOPATH again instead of the recorded one
UpArg_DefaultPath(r) == ReplaceArg(r.ModuleName, DefaultPath(r.ModuleName))

\* fmt.Sprintf("-replace=%s=%s", r.ModuleName, r.AbsPath)
UpArg(r) == ReplaceArg(r.ModuleName, r.AbsPath)

\* the loop of upRun: ok = FALSE when a go mod init failed
RECURSIVE UpLoop(_, _, _, _)
UpLoop(replaces, mods, fault, calls) ==
    IF replaces = <<>>
    THEN [ok |-> TRUE, gomods |-> mods, calls |-> calls, args |-> <<>>]
    ELSE LET r == replaces[1]
             initOk == gomodInitOk(r.AbsPath, mods, fault)
             call == InitCall(r.AbsPath, r.ModuleName, initOk)
         IN IF NeedsInit(r) /\ ~initOk
            THEN [ok |-> FALSE, gomods |-> mods, calls |-> Append(calls, call),
                  args |-> <<>>]
            ELSE LET rest == UpLoop(Tail(replaces),
                                    IF NeedsInit(r) THEN mods \cup {r.AbsPath} ELSE mods,
                                    fault,
                                    IF NeedsInit(r) THEN Append(calls, call) ELSE calls)
                 IN [rest EXCEPT !.args = <<UpArg(r)>> \o @]

\* upRun
upRun(st, mods, sums, man, fault) ==
    LET rd == readGomrFile(st)
        lp == UpLoop(rd.replaces, mods, fault, <<>>)
        ed == gomodEdit(man, lp.args, fault)
        calls == Append(lp.calls, EditCall(<<>>, lp.args, ed.ok))
    IN OutcomeWith(rd.replaces,
       IF rd.status # "ok"
       THEN Outcome(rd.status, st, mods, sums, man, <<>>, {}, ZeroReplace)
       ELSE IF ~lp.ok
       THEN Outcome("err", st, lp.gomods, sums, man, lp.calls, {}, ZeroReplace)
       ELSE IF ~ed.ok
       THEN Outcome("err", st, lp.gomods, sums, man, calls, {}, ZeroReplace)
       ELSE Outcome("ok", st, lp.gomods, sums, ed.manifest, calls, {}, ZeroReplace))

\* ------------------------------------------------------------------ down
\* the loop of downRun: ok = FALSE when os.Remove failed other than with
\* "does not exist"
RECURSIVE DownLoop(_, _, _, _)
DownLoop(replaces, mods, fault, removed) ==
    IF replaces = <<>>
    THEN [ok |-> TRUE, gomods |-> mods, removed |-> removed, args |-> <<>>]
    ELSE LET r == replaces[1]
         IN IF r.AddGoMod /\ RemoveFails(r.AbsPath, mods, fault)
            THEN [ok |-> FALSE, gomods |-> mods, removed |-> removed, args |-> <<>>]
            ELSE LET gone == IF r.AddGoMod THEN {r.AbsPath} \cap mods ELSE {}
                     rest == DownLoop(Tail(replaces), mods \ gone, fault,
                                      removed \cup {<<d, "go.mod">> : d \in gone})
                 IN [rest EXCEPT !.args = <<DropArg(r.ModuleName)>> \o @]

\* the record file rewritten without the records taken down
DownStore_Rewritten(st, replaces) == [exists |-> TRUE, data |-> <<>>]

\* the record file downRun leaves: it never writes it
DownStore(st, replaces) == st

\* downRun
downRun(st, mods, sums, man, fault) ==
    LET rd == readGomrFile(st)
        lp == DownLoop(rd.replaces, mods, fault, {})
        ed == gomodEdit(man, lp.args, fault)
        calls == <<EditCall(<<>>, lp.args, ed.ok)>>
    IN OutcomeWith(rd.replaces,
       IF rd.status # "ok"
       THEN Outcome(rd.status, st, mods, sums, man, <<>>, {}, ZeroReplace)
       ELSE IF ~lp.ok
       THEN Outcome("err", st, lp.gomods, sums, man, <<>>, lp.removed, ZeroReplace)
       ELSE IF ~ed.ok
       THEN Outcome("err", st, lp.gomods, sums, man, calls, lp.removed, ZeroReplace)
       ELSE Outcome("ok", DownStore(st, rd.replaces), lp.gomods, sums, ed.manifest,
                    calls, lp.removed, ZeroReplace))

\* ------------------------------------------------------- state machine
\* the run so far: "adds" while every command was a successful add, "addsDown"
\* after one successful down following them, "mixed" otherwise; clean while
\* every command was a successful add or remove on a host module that
\* started with no record file and no replace directive
NextHist(op, out) ==
    LET ok == out.result = "ok"
    IN [phase |-> IF op = "add" /\ ok /\ hist.phase = "adds" THEN "adds"
                  ELSE IF op = "down" /\ ok /\ hist.phase = "adds" /\ hist.adds # <<>>
                  THEN "addsDown"
                  ELSE "mixed",
        adds |-> IF op = "add" /\ ok /\ hist.phase = "adds"
                 THEN Append(hist.adds, out.rec)
                 ELSE IF op = "down" /\ ok /\ hist.phase = "adds" THEN hist.adds
                 ELSE <<>>,
        clean |-> hist.clean /\ ok /\ op \in {"add", "remove"}]

Commit(op, name, path, fault, out) ==
    /\ nops' = nops + 1
    /\ UNCHANGED find
    /\ store' = out.store
    /\ gomods' = out.gomods
    /\ gosums' = out.gosums
    /\ manifest' = out.manifest
    /\ last' = [op |-> op, name |-> name, path |-> path, fault |-> fault,
                result |-> out.result, calls |-> out.calls,
                removed |-> out.removed, rec |-> out.rec, replaces |-> out.replaces,
                pre |-> store, preMods |-> gomods, preSums |-> gosums,
                preManifest |-> manifest]
    /\ prev' = [op |-> last.op, result |-> last.result, pre |-> last.pre]
    /\ hist' = NextHist(op, out)

AddFaults == {f \in Faults : f.at \in {"none", "init", "edit", "store"}}
RemoveFaults == {f \in Faults : f.at \in {"none", "edit", "rm", "store"}}
UpFaults == {f \in Faults : f.at \in {"none", "init", "edit"}}
DownFaults == {f \in Faults : f.at \in {"none", "edit", "rm"}}

AddStep ==
    \E moduleName \in ModuleNames, argPath \in ArgPaths, fault \in AddFaults :
        \* a go mod init that fails is the one this add runs
        /\ fault.at = "init" => fault.dir = ResolvePath(moduleName, argPath)
        /\ Commit("add", moduleName, argPath, fault,
               addRun(moduleName, argPath, store, gomods, gosums, manifest, fault))

RemoveStep ==
    \E moduleName \in ModuleNames, fault \in RemoveFaults :
        Commit("remove", moduleName, <<>>, fault,
               removeRun(moduleName, store, gomods, gosums, manifest, fault))

UpStep ==
    \E fault \in UpFaults :
        Commit("up", <<>>, <<>>, fault, upRun(store, gomods, gosums, manifest, fault))

DownStep ==
    \E fault \in DownFaults :
        Commit("down", <<>>, <<>>, fault, downRun(store, gomods, gosums, manifest, fault))

\* one command on a host module gomr was never used in
Add == nops < MaxOps /\ AddStep
Remove == nops < MaxOps /\ RemoveStep
Up == nops < MaxOps /\ UpStep
Down == nops < MaxOps /\ DownStep

\* one command on a host module that has a record file: a run one command
\* shorter
StoreRemove == nops < MaxOps - 1 /\ RemoveStep
StoreUp == nops < MaxOps - 1 /\ UpStep
StoreDown == nops < MaxOps - 1 /\ DownStep

\* findModuleRoot has returned the working directory
FindDone == [cwd |-> HostRoot, marker |-> <<>>, pc |-> "done", d |-> HostRoot,
             result |-> "ok"]

NoCommand == [op |-> "none", name |-> <<>>, path |-> <<>>, fault |-> NoFault,
              result |-> "none", calls |-> <<>>,
              removed |-> {}, rec |-> ZeroReplace, replaces |-> <<>>,
              pre |-> [exists |-> FALSE, data |-> <<>>], preMods |-> {},
              preSums |-> {}, preManifest |-> {}]

\* a record file in the documented format: one "name path" or "name !path"
\* line per record
RECURSIVE StoreText(_)
StoreText(replaces) ==
    IF replaces = <<>> THEN <<>>
    ELSE AddLine(replaces[1].ModuleName, replaces[1].AbsPath, replaces[1].AddGoMod)
             \o <<"\n">> \o StoreText(Tail(replaces))

RECURSIVE ReplaceArgs(_)
ReplaceArgs(replaces) ==
    IF replaces = <<>> THEN <<>>
    ELSE <<ReplaceArg(replaces[1].ModuleName, replaces[1].AbsPath)>>
             \o ReplaceArgs(Tail(replaces))

\* the records a record file found at start may hold
StoreRecs ==
    {MkReplace(<<"a">>, DirX, TRUE), MkReplace(<<"A">>, DirZ, FALSE),
     MkReplace(<<"b">>, DirB, TRUE)}

StoreSeqs == UNION {[1..n -> StoreRecs] : n \in 0..MaxRecs}

\* a host module that gomr has not been used in: no record file, no replace
\* directive; DirZ is a module, DirX and DirB are not
InitFresh ==
    /\ store = [exists |-> FALSE, data |-> <<>>]
    /\ gomods = {DirZ}
    /\ gosums = {DirZ, DirX}
    /\ manifest = {}
    /\ last = NoCommand
    /\ prev = [op |-> "none", result |-> "none", pre |-> NoCommand.pre]
    /\ hist = [phase |-> "adds", adds |-> <<>>, clean |-> TRUE]
    /\ nops = 0
    /\ find = FindDone

\* a host module with a record file of several lines, either installed (the
\* directives and the added go.mod files present) or taken down
InitStore ==
    \E replaces \in StoreSeqs, installed \in BOOLEAN :
        /\ store = [exists |-> TRUE, data |-> StoreText(replaces)]
        /\ gomods = {DirZ} \cup (IF installed
                                  THEN {replaces[i].AbsPath : i \in
                                           {j \in 1..Len(replaces) : replaces[j].AddGoMod}}
                                  ELSE {})
        /\ gosums = {DirZ, DirX}
        /\ manifest = (IF installed THEN ApplyEdits({}, ReplaceArgs(replaces)) ELSE {})
        /\ last = NoCommand
        /\ prev = [op |-> "none", result |-> "none", pre |-> NoCommand.pre]
        /\ hist = [phase |-> "mixed", adds |-> <<>>, clean |-> FALSE]
        /\ nops = 0
        /\ find = FindDone

Init == InitFresh

Next == Add \/ Remove \/ Up \/ Down

Spec == Init /\ [][Next]_vars

NextStore == StoreRemove \/ StoreUp \/ StoreDown

\* remove, up and down on a record file of several records
SpecStore == InitStore /\ [][NextStore]_vars

\* the lines a record file edited by hand may hold: an empty line, a line of
\* spaces, a line of one field, and lines in the documented format
RawLines ==
    {<<>>, <<" ">>, <<"a">>, AddLine(<<"a">>, DirX, TRUE),
     AddLine(<<"A">>, DirZ, FALSE), AddLine(<<"b">>, DirB, TRUE)}

RawSeqs == UNION {[1..n -> RawLines] : n \in 0..MaxRecs}

\* the lines, each ended by a newline
RECURSIVE RawText(_)
RawText(lines) ==
    IF lines = <<>> THEN <<>>
    ELSE lines[1] \o <<"\n">> \o RawText(Tail(lines))

\* the records of the lines that hold at least two fields
RECURSIVE RawRecords(_)
RawRecords(lines) ==
    IF lines = <<>> THEN <<>>
    ELSE LET p == ParseLine(lines[1])
         IN (IF p.ok THEN <<p.r>> ELSE <<>>) \o RawRecords(Tail(lines))

\* a host module whose record file is any text of such lines, its readable
\* records either installed or taken down
InitRaw ==
    \E lines \in RawSeqs, installed \in BOOLEAN :
        LET replaces == RawRecords(lines)
        IN /\ store = [exists |-> TRUE, data |-> RawText(lines)]
           /\ gomods = {DirZ} \cup (IF installed
                                     THEN {replaces[i].AbsPath : i \in
                                              {j \in 1..Len(replaces) : replaces[j].AddGoMod}}
                                     ELSE {})
           /\ gosums = {DirZ, DirX}
           /\ manifest = (IF installed THEN ApplyEdits({}, ReplaceArgs(replaces)) ELSE {})
           /\ last = NoCommand
           /\ prev = [op |-> "none", result |-> "none", pre |-> NoCommand.pre]
           /\ hist = [phase |-> "mixed", adds |-> <<>>, clean |-> FALSE]
           /\ nops = 0
           /\ find = FindDone

\* remove, up and down on a record file of any lines
SpecRaw == InitRaw /\ [][NextStore]_vars

\* ------------------------------------------------------- findModuleRoot
\* a directory as the sequence of its path components; <<>> is "/"
DirAt(k) == [i \in 1..k |-> i]

\* what os.Stat(filepath.Join(d, "go.mod")) gives in a directory: "none" is an
\* error with os.IsNotExist, "err" another error, "file" and "dir" a go.mod
\* that is a file or a directory
StatKinds == {"none", "err", "file", "dir"}

\* os.Getwd() returned d
findGetwd(f) == [f EXCEPT !.pc = "top", !.d = f.cwd]

\* os.Getwd() returned an error
findGetwdErr(f) == [f EXCEPT !.pc = "done", !.result = "getwd"]

\* the head of the loop: if d == "" || d == "/" { break }, and the return
\* after the loop
findTop(f) ==
    IF f.d = <<>> THEN [f EXCEPT !.pc = "done", !.result = "nomodule"]
    ELSE [f EXCEPT !.pc = "stat"]

\* the rest of the loop body: os.Stat and what follows it; d is assigned
\* nowhere in the loop
findStat(f) ==
    LET kind == f.marker[Len(f.d)]
    IN IF kind = "none" THEN [f EXCEPT !.pc = "top"]
       ELSE IF kind = "err" THEN [f EXCEPT !.pc = "done", !.result = "err"]
       ELSE IF kind = "file" THEN [f EXCEPT !.pc = "done", !.result = "ok"]
       ELSE [f EXCEPT !.pc = "top"]

FindFrame == UNCHANGED <<store, gomods, gosums, manifest, last, prev, hist, nops>>

FindGetwd == find.pc = "getwd" /\ find' = findGetwd(find) /\ FindFrame

FindGetwdErr == find.pc = "getwd" /\ find' = findGetwdErr(find) /\ FindFrame

FindTop == find.pc = "top" /\ find' = findTop(find) /\ FindFrame

FindStat == find.pc = "stat" /\ find' = findStat(find) /\ FindFrame

\* findModuleRoot called in a working directory of depth up to MaxDepth, with
\* any go.mod entries in it and in its ancestors
InitFind ==
    /\ \E k \in 0..MaxDepth : \E marker \in [0..k -> StatKinds] :
           find = [cwd |-> DirAt(k), marker |-> marker, pc |-> "getwd", d |-> <<>>,
                   result |-> "none"]
    /\ store = [exists |-> FALSE, data |-> <<>>]
    /\ gomods = {DirZ}
    /\ gosums = {DirZ, DirX}
    /\ manifest = {}
    /\ last = NoCommand
    /\ prev = [op |-> "none", result |-> "none", pre |-> NoCommand.pre]
    /\ hist = [phase |-> "mixed", adds |-> <<>>, clean |-> FALSE]
    /\ nops = 0

NextFind == FindGetwd \/ FindGetwdErr \/ FindTop \/ FindStat

\* one call of findModuleRoot, run without pause until it returns
SpecFind == InitFind /\ [][NextFind]_vars /\ WF_vars(NextFind)

\* ------------------------------------------------------------ properties
\* the (name, path) pairs of a list of records
Pairs(replaces) ==
    {<<replaces[i].ModuleName, replaces[i].AbsPath>> : i \in 1..Len(replaces)}

\* the records readGomrFile returns for the record file as it is now
Loaded == readGomrFile(store)

\* the records readGomrFile returned to the command run last
LoadedBefore == readGomrFile(last.pre)

\* name matches the name of r as removeRun compares names
Matches(r, name) == ToLower(r.ModuleName) = ToLower(name)

\* C1: on a host module that started with no record file and no replace
\* directive, after successful add and remove commands only, the (name, path)
\* pairs loaded from the record file are the replace directives of the host
\* go.mod.
C1_StoreAgreesWithManifest ==
    (hist.clean /\ store.exists) =>
        /\ Loaded.status = "ok"
        /\ Pairs(Loaded.replaces) = manifest

\* C2: the list writeGomrFile saved is the list readGomrFile loads back from
\* the same file, record by record (name, path and flag).
C2_SaveLoadRoundTrip ==
    (last.op = "remove" /\ last.result = "ok" /\ last.rec # ZeroReplace) =>
        /\ Loaded.status = "ok"
        /\ Loaded.replaces = last.replaces

\* C3: after k >= 1 successful adds on a host module with no record file, the
\* record file loads as the k records of those adds, in call order.
C3_AddAppendsOneRecord ==
    (hist.phase = "adds" /\ hist.adds # <<>>) =>
        /\ Loaded.status = "ok"
        /\ Loaded.replaces = hist.adds

\* C4: the list a successful remove(name) persists holds no record whose name
\* matches name case-insensitively.
C4_RemoveDropsEveryMatch ==
    (last.op = "remove" /\ last.result = "ok") =>
        \A i \in 1..Len(last.replaces) : ~Matches(last.replaces[i], last.name)

\* C5: after a successful remove that dropped a stored record, the host go.mod
\* has no replace directive for that record's stored name.
C5_RemoveDropsDirective ==
    (last.op = "remove" /\ last.result = "ok" /\ last.rec # ZeroReplace) =>
        \A d \in manifest : d[1] # last.rec.ModuleName

\* the names of the adds of this run are pairwise distinct
DistinctAddNames ==
    \A i, j \in 1..Len(hist.adds) :
        i # j => hist.adds[i].ModuleName # hist.adds[j].ModuleName

\* C6: after k >= 1 successful adds of distinct names and then a successful
\* down, the host go.mod has no replace directive for any added name and no
\* go.mod that one of the adds created is left on disk.
C6_DownRemovesAllAdded ==
    (hist.phase = "addsDown" /\ DistinctAddNames) =>
        \A i \in 1..Len(hist.adds) :
            /\ \A d \in manifest : d[1] # hist.adds[i].ModuleName
            /\ hist.adds[i].AddGoMod => hist.adds[i].AbsPath \notin gomods

\* C7: down leaves the record file as it was, whether it succeeds or fails.
C7_DownKeepsStore ==
    last.op = "down" => store = last.pre

\* a successful down on a record file of two records or more that deleted a
\* go.mod
C7_Witness ==
    /\ last.op = "down" /\ last.result = "ok"
    /\ Len(last.replaces) >= 2
    /\ last.removed # {}

\* the -replace arguments of the records of a list, written out
ReplaceArgSet(replaces) ==
    {<<"-replace=">> \o replaces[i].ModuleName \o <<"=">> \o replaces[i].AbsPath :
        i \in 1..Len(replaces)}

\* the last go tool call of the command run last
LastCall == last.calls[Len(last.calls)]

C9_RemoveNoMatch ==
    (/\ last.op = "remove"
     /\ LoadedBefore.status = "ok"
     /\ \A i \in 1..Len(LoadedBefore.replaces) :
            ~Matches(LoadedBefore.replaces[i], last.name)) =>
        /\ last.result = "ok"
        /\ last.calls = <<>>
        /\ last.removed = {}
        /\ store = last.pre
        /\ gomods = last.preMods
        /\ gosums = last.preSums
        /\ manifest = last.preManifest

\* remove of a name that a record file of two records does not hold
C9_Witness ==
    /\ last.op = "remove"
    /\ LoadedBefore.status = "ok"
    /\ Len(LoadedBefore.replaces) >= 2
    /\ \A i \in 1..Len(LoadedBefore.replaces) :
           ~Matches(LoadedBefore.replaces[i], last.name)

\* the go mod init calls up is to make for a list of records, in order
RECURSIVE ExpectedInits(_)
ExpectedInits(replaces) ==
    IF replaces = <<>> THEN <<>>
    ELSE (IF replaces[1].AddGoMod
          THEN <<[cmd |-> "init", dir |-> replaces[1].AbsPath,
                  args |-> <<replaces[1].ModuleName>>]>>
          ELSE <<>>) \o ExpectedInits(Tail(replaces))

\* the -replace arguments of a list of records, in order
RECURSIVE ExpectedArgs(_)
ExpectedArgs(replaces) ==
    IF replaces = <<>> THEN <<>>
    ELSE <<<<"-replace=">> \o replaces[1].ModuleName \o <<"=">> \o replaces[1].AbsPath>>
             \o ExpectedArgs(Tail(replaces))

\* a call without what it returned
Bare(call) == [cmd |-> call.cmd, dir |-> call.dir, args |-> call.args]

IsInit(call) == call.cmd = "init"

IsEdit(call) == call.cmd = "edit"

\* C10: up calls go mod init once for each record that has the flag, in
\* stored order, and for no other record, then calls go mod edit once with one
\* -replace=name=path per stored record; after a failed init it calls go mod
\* edit not at all.
C10_UpInitsThenOneEdit ==
    (last.op = "up" /\ LoadedBefore.status = "ok") =>
        LET inits == SelectSeq(last.calls, IsInit)
            edits == SelectSeq(last.calls, IsEdit)
            want == ExpectedInits(LoadedBefore.replaces)
        IN /\ Len(inits) <= Len(want)
           /\ \A i \in 1..Len(inits) : Bare(inits[i]) = want[i]
           /\ (\E i \in 1..Len(inits) : ~inits[i].ok) => edits = <<>>
           /\ (\A i \in 1..Len(inits) : inits[i].ok) =>
                  /\ Len(inits) = Len(want)
                  /\ Len(edits) = 1
                  /\ IsEdit(LastCall)
                  /\ LastCall.args = ExpectedArgs(LoadedBefore.replaces)

\* a successful up on a record file holding a record with the flag and one
\* without
C10_Witness ==
    /\ last.op = "up" /\ last.result = "ok"
    /\ \E i, j \in 1..Len(LoadedBefore.replaces) :
           LoadedBefore.replaces[i].AddGoMod /\ ~LoadedBefore.replaces[j].AddGoMod

\* the path the add run last is to use: its second argument, or
\* $GOPATH/src/name when that was not given
AddPath ==
    IF last.path = <<>> THEN <<"/", "w", "/", "src", "/">> \o last.name ELSE last.path

\* the command run last changed no file and no directive
NothingChanged ==
    /\ store = last.pre
    /\ gomods = last.preMods
    /\ gosums = last.preSums
    /\ manifest = last.preManifest

\* C11: add whose given or derived path is not on disk fails before anything
\* is changed: no go mod init, no go mod edit, no write to the record file.
C11_AddPathNotFound ==
    (last.op = "add" /\ AddPath \notin {DirX, DirZ, DirB}) =>
        /\ last.result = "err"
        /\ last.calls = <<>>
        /\ NothingChanged

\* an add without a path whose copy under GOPATH is missing, run when a record
\* file and a directive exist
C11_Witness ==
    /\ last.op = "add" /\ last.path = <<>>
    /\ AddPath \notin {DirX, DirZ, DirB}
    /\ last.pre.exists /\ last.preManifest # {}

\* C12: findModuleRoot returns, for every working directory and every
\* placement of go.mod: with a directory, with the error of os.Stat or with
\* "could not find a go.mod".
C12_FindTerminates == <>(find.pc = "done")

\* the depths, from the working directory up to the root, of the directories
\* holding a go.mod file that the search can get to without an os.Stat error
MarkerDepths ==
    {j \in 0..Len(find.cwd) :
        /\ find.marker[j] = "file"
        /\ \A i \in j..Len(find.cwd) : find.marker[i] # "err"}

\* C13: when the working directory or one of its ancestors, the root
\* included, holds a go.mod file, findModuleRoot returns the nearest such
\* directory.
C13_FindReturnsNearest ==
    (find.pc = "done" /\ find.result # "getwd" /\ MarkerDepths # {}) =>
        /\ find.result = "ok"
        /\ \A j \in MarkerDepths : Len(find.d) >= j
        /\ Len(find.d) \in MarkerDepths

\* C14: after successful adds only, every record loaded with the flag set has
\* a go.mod in the directory of its path.
C14_FlaggedRecordHasGoMod ==
    (hist.phase = "adds" /\ hist.adds # <<>>) =>
        /\ Loaded.status = "ok"
        /\ \A i \in 1..Len(Loaded.replaces) :
               Loaded.replaces[i].AddGoMod => Loaded.replaces[i].AbsPath \in gomods

\* how many times r occurs in the list replaces
Count(replaces, r) == Cardinality({i \in 1..Len(replaces) : replaces[i] = r})

\* the records of the list replaces that do not match name
RECURSIVE NonMatching(_, _)
NonMatching(replaces, name) ==
    IF replaces = <<>> THEN <<>>
    ELSE (IF Matches(replaces[1], name) THEN <<>> ELSE <<replaces[1]>>)
             \o NonMatching(Tail(replaces), name)

\* C15: after a successful remove(name) the record file loads as the records
\* loaded before it without those matching name, each as often as before
\* and unchanged.
C15_RemoveKeepsOthers ==
    (last.op = "remove" /\ last.result = "ok") =>
        LET kept == NonMatching(LoadedBefore.replaces, last.name)
        IN /\ Loaded.status = "ok"
           /\ Len(Loaded.replaces) = Len(kept)
           /\ \A i \in 1..Len(kept) :
                  Count(Loaded.replaces, kept[i]) = Count(kept, kept[i])

\* C16: in add the flag is set exactly when the path holds no go.mod at the
\* call; then go mod init (path, name) is the first call and go mod edit comes
\* after it; a failed init leaves no edit call and no appended record, a
\* failed edit leaves no appended record, and the go.mod of a successful init
\* stays.
C16_AddOrderAndAbort ==
    (last.op = "add" /\ AddPath \in {DirX, DirZ, DirB}) =>
        LET syn == AddPath \notin last.preMods
            inits == SelectSeq(last.calls, IsInit)
            edits == SelectSeq(last.calls, IsEdit)
            flag == IF syn THEN <<"!">> ELSE <<>>
            appended == last.pre.data \o last.name \o <<" ">> \o flag \o AddPath
        IN /\ inits = (IF syn
                       THEN <<[cmd |-> "init", dir |-> AddPath, args |-> <<last.name>>,
                               ok |-> last.calls[1].ok]>>
                       ELSE <<>>)
           /\ syn => IsInit(last.calls[1])
           /\ Len(edits) <= 1
           /\ edits # <<>> => IsEdit(LastCall) /\ \A i \in 1..Len(inits) : inits[i].ok
           /\ (\E i \in 1..Len(inits) : ~inits[i].ok) =>
                  /\ edits = <<>>
                  /\ last.result = "err"
                  /\ NothingChanged
           /\ (\E i \in 1..Len(edits) : ~edits[i].ok) =>
                  /\ last.result = "err"
                  /\ store = last.pre
                  /\ manifest = last.preManifest
                  /\ syn => AddPath \in gomods
           /\ last.result = "ok" => store = [exists |-> TRUE, data |-> appended]

\* an add to a path without go.mod whose go mod init succeeds and whose go mod
\* edit fails
C16_Witness ==
    /\ last.op = "add"
    /\ AddPath \notin last.preMods
    /\ Len(last.calls) = 2
    /\ last.calls[1].ok /\ ~last.calls[2].ok

\* C17: up run when every flagged record of the record file already has its
\* go.mod does not stop at go mod init: it goes on to the go mod edit call.
C17_UpWithGoModPresent ==
    (/\ last.op = "up"
     /\ LoadedBefore.status = "ok"
     /\ \E i \in 1..Len(LoadedBefore.replaces) : LoadedBefore.replaces[i].AddGoMod
     /\ \A i \in 1..Len(LoadedBefore.replaces) :
            LoadedBefore.replaces[i].AddGoMod =>
                LoadedBefore.replaces[i].AbsPath \in last.preMods) =>
        \E i \in 1..Len(last.calls) : IsEdit(last.calls[i])

\* the directories of the records that say a go.mod was added
FlaggedPaths(replaces) ==
    {replaces[i].AbsPath : i \in {j \in 1..Len(replaces) : replaces[j].AddGoMod}}

\* the last command's os.Remove failed on the directory dirs holds
RmFaultAt(dirs) == last.fault.at = "rm" /\ last.fault.dir \in dirs

\* C18: when down or remove handles a record that says a go.mod was added and
\* whose go.mod (for remove, go.mod or go.sum) is already absent, deleting it
\* changes nothing and the command goes on: down stops before go mod edit
\* exactly when an os.Remove failed for another reason, remove succeeds
\* exactly when go mod edit, the deletions and the write of the record file
\* all succeeded, and only files that existed are deleted.
C18_AbsentDeleteIsNoOp ==
    /\ (/\ last.op = "down"
        /\ last.pre.exists
        /\ last.result # "panic"
        /\ FlaggedPaths(last.replaces) \ last.preMods # {})
       => /\ last.calls = <<>> <=> RmFaultAt(FlaggedPaths(last.replaces))
          /\ (last.calls # <<>> /\ last.calls[1].ok) => last.result = "ok"
          /\ \A e \in last.removed : e[2] = "go.mod" /\ e[1] \in last.preMods
          /\ last.calls # <<>> => gomods = last.preMods \ FlaggedPaths(last.replaces)
          /\ gosums = last.preSums
    /\ (/\ last.op = "remove"
        /\ last.calls # <<>>
        /\ last.rec.AddGoMod
        /\ (last.rec.AbsPath \notin last.preMods \/ last.rec.AbsPath \notin last.preSums))
       => /\ last.result = "ok"
              <=> /\ last.calls[1].ok
                  /\ ~RmFaultAt({last.rec.AbsPath})
                  /\ last.fault.at # "store"
          /\ \A e \in last.removed :
                \/ e[2] = "go.mod" /\ e[1] \in last.preMods
                \/ e[2] = "go.sum" /\ e[1] \in last.preSums
          /\ last.result = "ok"
                => /\ store = [exists |-> TRUE, data |-> writeGomrFile(last.replaces)]
                   /\ gomods = last.preMods \ {last.rec.AbsPath}
                   /\ gosums = last.preSums \ {last.rec.AbsPath}

\* a successful down, then a successful remove of a record whose go.mod and
\* go.sum are both gone
C18_Witness ==
    /\ prev.op = "down"
    /\ prev.result = "ok"
    /\ last.op = "remove"
    /\ last.result = "ok"
    /\ last.rec.AddGoMod
    /\ last.rec.AbsPath \notin last.preMods
    /\ last.rec.AbsPath \notin last.preSums

\* the record file the last command read holds a line of fewer than two fields
MalformedBefore ==
    /\ last.pre.exists
    /\ \E i \in 1..Len(ScanLines(last.pre.data)) :
           Len(Fields(ScanLines(last.pre.data)[i])) < 2

\* C19: remove, up or down on a record file that holds a line of fewer than
\* two fields (an empty line included) gets an error back from readGomrFile:
\* the command ends with that error, not with a crash, runs no go command and
\* leaves the record file as it was.
C19_MalformedLineIsError ==
    (last.op \in {"remove", "up", "down"} /\ MalformedBefore)
        => /\ last.result = "err"
           /\ last.calls = <<>>
           /\ store = last.pre

====
